---- MODULE Spec2Model ----
(***************************************************************************)
(* Model of the rate-limited concurrent dispatch engine of                 *)
(* src/src/a_sink_openai/chat.py: the per-call executor                    *)
(* (_call_openai_chat / call_openai_chat) and the batch orchestrator       *)
(* (async_call_open_ai_chat).                                              *)
(*                                                                         *)
(* One asyncio task per input row; a task is suspended only at its awaits  *)
(* (rate limiter wait, semaphore acquire, session.post, res.json), so each *)
(* action below is the code between two suspension points.                 *)
(***************************************************************************)
EXTENDS Integers, Sequences, FiniteSets, TLC

\* ---------------------------------------------------------------- bounds
\* number of rows of input_data (one task each)
K == 2
\* largest capacity of u.RATE_LIMITER_SEMAPHORE that is explored
MaxN == 2
\* largest number of 429 responses the server gives to one request
Max429 == 2
\* the caps handed to rt.set_rate_limiter (MAX_REQUESTS_PER_MIN and
\* MAX_TOKENS_PER_MIN of chat.py:19-20), scaled down so that a batch of K
\* rows can exhaust a window
MaxRequestsPerWindow == 1
MaxTokensPerWindow == 2

Executors == 1..K

\* ------------------------------------------------------------- constants
\* an absent text (Python's None where a string is expected)
None == "None"
\* Python's None where a mapping or an object is expected
Nothing == [none |-> TRUE]
DEFAULT_MODEL == "gpt-4o-mini"
PROMPT == "prompt"

\* the batch: rows without text and rows with text alternate
Rows ==
    [i \in Executors |-> [id |-> i, text |-> IF i % 2 = 1 THEN None ELSE "t"]]

\* HTTP statuses the transport may answer with
Statuses == {200, 429, 500}

VARIABLES
    capacity,     \* N, the initial value of u.RATE_LIMITER_SEMAPHORE
    semValue,     \* u.RATE_LIMITER_SEMAPHORE._value
    schemaMode,   \* pydantic_model is not None
    input_data,   \* the rows of the batch
    pc,           \* where each task is suspended
    depth,        \* live frames of _call_openai_chat of each task inside
                  \* "async with u.RATE_LIMITER_SEMAPHORE" (slots it holds)
    n429,         \* 429 responses each task has received
    nwaits,       \* completed rt.RATE_LIMITER.wait_for_availability calls
    nposts,       \* session.post calls started
    status,       \* status of the last response of each task (0: none yet)
    got,          \* the body res.json() gave each task (Nothing: none yet)
    outcome,      \* what each task resolved with (Nothing: unresolved)
    lastResolved, \* the task that resolved last (0: none yet)
    frame,        \* the arguments (data, required_tokens) of each task's
                  \* innermost call of _call_openai_chat
    sent,         \* the JSON payload of each task's last POST (Nothing: none)
    nunit,        \* completed wait_for_availability(required_tokens) calls
    charged,      \* tokens those calls have committed for each task
    waitsSinceResponse, \* waits each task completed since its last response
    nupdates,     \* update_from_headers calls made for each task
    reqUsed,      \* rate limiter: requests committed in the current window
    tokUsed,      \* rate limiter: tokens committed in the current window
    batch,        \* "running" until async_call_open_ai_chat returns
    results,      \* what asyncio.gather returned
    output,       \* what async_call_open_ai_chat returned
    msgPrompt,    \* _construct_messages: its argument prompt
    msgText,      \* _construct_messages: its argument text
    msgOut        \* _construct_messages: what it returned (<<>>: not called)

vars == <<capacity, semValue, schemaMode, input_data, pc, depth, n429, nwaits,
          nposts, status, got, outcome, lastResolved, frame, sent, nunit,
          charged, waitsSinceResponse, nupdates, reqUsed, tokUsed,
          batch, results, output, msgPrompt, msgText, msgOut>>

execVars == <<pc, depth, n429, nwaits, nposts, status, got, outcome,
              lastResolved, frame, sent, nunit, charged, waitsSinceResponse,
              nupdates>>
msgVars == <<msgPrompt, msgText, msgOut>>
gateVars == <<capacity, semValue>>
trackerVars == <<reqUsed, tokUsed>>
batchVars == <<batch, results, output>>
inputVars == <<schemaMode, input_data>>

\* ------------------------------------------------------ message building
\* Python truthiness of an optional string
Truthy(s) == s # None /\ s # ""

\* text or prompt
TextOrPrompt(prompt, text) == IF Truthy(text) THEN text ELSE prompt

_construct_messages(prompt, text) ==
    (IF text # None THEN <<[role |-> "system", content |-> prompt]>> ELSE <<>>)
        \o <<[role |-> "user", content |-> TextOrPrompt(prompt, text)]>>

\* the token estimator: a function of the messages only
count_tokens(messages) == Len(messages)

required_tokens(i) ==
    count_tokens(_construct_messages(PROMPT, input_data[i].text))

\* chat.py:93-96: the JSON payload of the call
CallData(row, schema) ==
    IF schema
    THEN [model |-> DEFAULT_MODEL,
          messages |-> _construct_messages(PROMPT, row.text),
          response_format |-> "json_schema"]
    ELSE [model |-> DEFAULT_MODEL,
          messages |-> _construct_messages(PROMPT, row.text)]

\* a retry that asks the rate limiter for no tokens
RecurseArgsNoEstimate(f) == [f EXCEPT !.required_tokens = 0]

\* chat.py:76: the recursive call is given the caller's own arguments
RecurseArgs(f) == f

\* ---------------------------------------------------- the rate limiter
\* an admission that looks at the token window only
AdmitsTokensOnly(units) == tokUsed + units <= MaxTokensPerWindow

\* wait_for_availability(units) may return when the window has room for one
\* more request and for units more tokens
Admits(units) ==
    /\ reqUsed + 1 <= MaxRequestsPerWindow
    /\ tokUsed + units <= MaxTokensPerWindow

\* wait_for_availability commits one request and units tokens
CommitRequests(used) == used + 1
CommitTokens(used, units) == used + units

\* ------------------------------------------------------- the responses
Usage == [prompt_tokens |-> 1, completion_tokens |-> 1, total_tokens |-> 2]

\* message.content of a choice: JSON matching the schema, JSON that lacks
\* the schema's field, and text that is no JSON
Contents == {"{\"text\":\"Paris\"}", "{\"city\":\"Paris\"}", "Paris"}

Choice(c) == [message |-> [content |-> c]]

\* the JSON bodies a 2xx response may carry
Bodies ==
    {[usage |-> Usage, choices |-> <<Choice(c)>>] : c \in Contents}
        \cup {[choices |-> <<Choice("Paris")>>],
              [usage |-> Usage],
              [usage |-> Usage, choices |-> <<>>]}

Error(exc, st) == [kind |-> "error", exc |-> exc, status |-> st]

IsError(o) == o # Nothing /\ o.kind = "error"

\* json.loads of a message content
json_loads(content) ==
    CASE content = "{\"text\":\"Paris\"}" -> [text |-> "Paris"]
      [] content = "{\"city\":\"Paris\"}" -> [city |-> "Paris"]
      [] OTHER -> Nothing

\* the required fields of the caller's pydantic_model
SchemaFields == {"text"}

\* ChatOutput(id=id, gpt_tokens_used=usage, **result_json)
ChatOutput(row, usage, result_json) ==
    IF SchemaFields \subseteq DOMAIN result_json
    THEN [kind |-> "ChatOutput",
          id |-> row.id,
          gpt_tokens_used |-> usage,
          gpt_raw_input |-> TextOrPrompt(PROMPT, row.text),
          gpt_model |-> DEFAULT_MODEL,
          payload |-> result_json]
    ELSE Error("ValidationError", 0)

\* the test of chat.py:100 without its check for an empty choices list
IsMalformedKeysOnly(response) ==
    \/ "usage" \notin DOMAIN response
    \/ "choices" \notin DOMAIN response

\* the test of chat.py:100
IsMalformed(response) ==
    \/ "usage" \notin DOMAIN response
    \/ "choices" \notin DOMAIN response
    \/ response.choices = <<>>

\* a parse failure skipped silently: the envelope is built without payload
ParseResultLenient(row, usage, result) ==
    IF json_loads(result) = Nothing
    THEN [kind |-> "ChatOutput",
          id |-> row.id,
          gpt_tokens_used |-> usage,
          gpt_raw_input |-> TextOrPrompt(PROMPT, row.text),
          gpt_model |-> DEFAULT_MODEL,
          payload |-> Nothing]
    ELSE ChatOutput(row, usage, json_loads(result))

\* json.loads(result) and the construction of ChatOutput
ParseResult(row, usage, result) ==
    IF json_loads(result) = Nothing
    THEN Error("JSONDecodeError", 0)
    ELSE ChatOutput(row, usage, json_loads(result))

\* call_openai_chat from the return of _call_openai_chat to its own return
\* or raise
ShapeResponse(row, schema, response) ==
    IF response = Nothing THEN Error("TypeError", 0)
    ELSE IF IsMalformed(response) THEN Error("BadResponseException", 0)
    ELSE IF "usage" \notin DOMAIN response \/ "choices" \notin DOMAIN response
         THEN Error("KeyError", 0)
    ELSE IF response.choices = <<>> THEN Error("IndexError", 0)
    ELSE IF ~schema
         THEN [kind |-> "pair",
               content |-> response.choices[1].message.content,
               usage |-> response.usage]
    ELSE ParseResult(row, response.usage, response.choices[1].message.content)

\* return await _call_openai_chat(data, required_tokens): what an outer
\* frame returns is what the inner frame returned
RetryReturn(value) == value

\* the value the outermost _call_openai_chat returns when the innermost of
\* d frames returned body
Returned(d, body) == IF d > 1 THEN RetryReturn(body) ELSE body

\* ------------------------------------------------- the concurrency gate
\* an acquire that never suspends
CanAcquireAlways(value) == TRUE

\* asyncio.Semaphore: acquire proceeds only while _value > 0
CanAcquire(value) == value > 0

\* d frames leave "async with u.RATE_LIMITER_SEMAPHORE" on a return
ReleaseOnReturn(value, d) == value + d

\* a release that is skipped when the block is left by an exception
ReleaseOnRaiseLeak(value, d) == value

\* d frames leave "async with u.RATE_LIMITER_SEMAPHORE" on an exception
ReleaseOnRaise(value, d) == value + d

\* every error status taken for a throttle
IsThrottleAnyError(st) == st >= 400

\* no status taken for a throttle
IsThrottleNever(st) == FALSE

\* e.status == 429
IsThrottle(st) == st = 429

\* res.raise_for_status() raises for the statuses from 400 on
RaisesForStatus(st) == st >= 400

\* headers fed back before the status is looked at
FeedsHeadersAlways(st) == TRUE

\* chat.py:81 is reached only when raise_for_status did not raise
FeedsHeaders(st) == ~RaisesForStatus(st)

\* slots of the gate that are held
Held == capacity - semValue

\* --------------------------------------------------------- orchestrator
\* asyncio.gather's default
ReturnExceptionsDefault == FALSE

\* return_exceptions of the asyncio.gather call
ReturnExceptions == TRUE

Resolved(i) == pc[i] = "done"

\* a wait that resumes its caller as soon as one task has resolved
GatherReadyFirstCompleted(return_exceptions) ==
    \E i \in Executors : Resolved(i)

\* asyncio.gather resumes its caller when every task has resolved or, unless
\* exceptions are returned, as soon as one task has raised
GatherReady(return_exceptions) ==
    \/ \A i \in Executors : Resolved(i)
    \/ ~return_exceptions /\ \E i \in Executors : IsError(outcome[i])

\* entries in the order of completion: the task that resolved last comes last
gather_as_completed(outcomes, last) ==
    [i \in Executors |->
        IF i = K THEN outcomes[last]
        ELSE IF i >= last THEN outcomes[i + 1] ELSE outcomes[i]]

\* asyncio.gather hands back one entry per awaitable, in the order the
\* awaitables were passed
gather(outcomes, last) == [i \in Executors |-> outcomes[i]]

IsValidRecord(o) == o.kind = "ChatOutput"

RECURSIVE ValidFrom(_, _)
ValidFrom(res, i) ==
    IF i > Len(res) THEN <<>>
    ELSE (IF IsValidRecord(res[i]) THEN <<res[i]>> ELSE <<>>)
             \o ValidFrom(res, i + 1)

\* the row of input_data an outcome lets its reader recover: the exceptions
\* raised by chat.py:70-123 hold the status, the response or the content,
\* never the row
CarriedInput(o) == Nothing

RECURSIVE InvalidFrom(_, _)
InvalidFrom(res, i) ==
    IF i > Len(res) THEN <<>>
    ELSE (IF IsValidRecord(res[i]) THEN <<>>
          ELSE <<[input |-> CarriedInput(res[i]), error |-> res[i]]>>)
             \o InvalidFrom(res, i + 1)

\* u.split_valid_and_invalid_records(results, pydantic_model): the call of
\* chat.py:149 hands over the gathered outcomes and the schema, not
\* input_data
split_valid_and_invalid_records(res) ==
    [valid |-> ValidFrom(res, 1), invalid |-> InvalidFrom(res, 1)]

\* ------------------------------------------------------------------ Init
InitBatch ==
    /\ semValue = capacity
    /\ input_data = Rows
    /\ frame = [i \in Executors |->
                  [data |-> CallData(Rows[i], schemaMode),
                   required_tokens |->
                       count_tokens(_construct_messages(PROMPT, Rows[i].text))]]
    /\ sent = [i \in Executors |-> Nothing]
    /\ nunit = [i \in Executors |-> 0]
    /\ charged = [i \in Executors |-> 0]
    /\ waitsSinceResponse = [i \in Executors |-> 0]
    /\ nupdates = [i \in Executors |-> 0]
    /\ pc = [i \in Executors |-> "wait"]
    /\ depth = [i \in Executors |-> 0]
    /\ n429 = [i \in Executors |-> 0]
    /\ nwaits = [i \in Executors |-> 0]
    /\ nposts = [i \in Executors |-> 0]
    /\ status = [i \in Executors |-> 0]
    /\ got = [i \in Executors |-> Nothing]
    /\ outcome = [i \in Executors |-> Nothing]
    /\ lastResolved = 0
    /\ reqUsed = 0
    /\ tokUsed = 0
    /\ batch = "running"
    /\ results = <<>>
    /\ output = Nothing

Init ==
    /\ capacity \in 1..MaxN
    /\ schemaMode \in BOOLEAN
    /\ InitBatch
    /\ msgPrompt = PROMPT
    /\ msgText = None
    /\ msgOut = <<>>

\* --------------------------------------------------------------- actions
\* chat.py:65: await rt.RATE_LIMITER.wait_for_availability(required_tokens)
WaitForAvailability(i) ==
    /\ pc[i] = "wait"
    /\ Admits(frame[i].required_tokens)
    /\ reqUsed' = CommitRequests(reqUsed)
    /\ tokUsed' = CommitTokens(tokUsed, frame[i].required_tokens)
    /\ nwaits' = [nwaits EXCEPT ![i] = @ + 1]
    /\ nunit' = [nunit EXCEPT ![i] = @ + 1]
    /\ charged' = [charged EXCEPT ![i] = @ + frame[i].required_tokens]
    /\ waitsSinceResponse' = [waitsSinceResponse EXCEPT ![i] = @ + 1]
    /\ pc' = [pc EXCEPT ![i] = "acquire"]
    /\ UNCHANGED <<depth, n429, nposts, status, got, outcome, lastResolved>>
    /\ UNCHANGED <<frame, sent, nupdates>>
    /\ UNCHANGED <<gateVars, batchVars, inputVars, msgVars>>

\* chat.py:66-68: the semaphore is acquired, the session opened and the POST
\* sent
Acquire(i) ==
    /\ pc[i] = "acquire"
    /\ CanAcquire(semValue)
    /\ semValue' = semValue - 1
    /\ depth' = [depth EXCEPT ![i] = @ + 1]
    /\ nposts' = [nposts EXCEPT ![i] = @ + 1]
    /\ sent' = [sent EXCEPT ![i] = frame[i].data]
    /\ pc' = [pc EXCEPT ![i] = "post"]
    /\ UNCHANGED <<capacity, n429, nwaits, status, got, outcome, lastResolved>>
    /\ UNCHANGED <<frame, nunit, charged, waitsSinceResponse, nupdates>>
    /\ UNCHANGED <<trackerVars, batchVars, inputVars, msgVars>>

\* rt.RATE_LIMITER.update_from_headers(res.headers): the window is set to
\* what the server reports as used
UpdateFromHeaders(usedReq, usedTok) ==
    /\ reqUsed' = usedReq
    /\ tokUsed' = usedTok

\* what the rate-limit headers of a response may report as used: what the
\* rate limiter counted itself, a fresh window, or an exhausted one
HeaderReports ==
    {<<reqUsed, tokUsed>>, <<0, 0>>,
     <<MaxRequestsPerWindow, MaxTokensPerWindow>>}

\* chat.py:68-81: the response arrives with status st
Respond(i, st) ==
    /\ pc[i] = "post"
    /\ st = 429 => n429[i] < Max429
    /\ status' = [status EXCEPT ![i] = st]
    /\ waitsSinceResponse' = [waitsSinceResponse EXCEPT ![i] = 0]
    /\ IF FeedsHeaders(st)
       THEN /\ \E report \in HeaderReports :
                   UpdateFromHeaders(report[1], report[2])
            /\ nupdates' = [nupdates EXCEPT ![i] = @ + 1]
       ELSE UNCHANGED <<trackerVars, nupdates>>
    /\ IF ~RaisesForStatus(st)
       THEN \* raise_for_status passes; update_from_headers; await res.json()
            /\ pc' = [pc EXCEPT ![i] = "body"]
            /\ UNCHANGED <<semValue, depth, n429, outcome, lastResolved>>
       ELSE IF IsThrottle(st)
       THEN \* await rt.RATE_LIMITER.wait_for_availability(), slot still held
            /\ pc' = [pc EXCEPT ![i] = "retrywait"]
            /\ n429' = [n429 EXCEPT ![i] = @ + 1]
            /\ UNCHANGED <<semValue, depth, outcome, lastResolved>>
       ELSE \* raise e: every frame of the task is left by the exception
            /\ semValue' = ReleaseOnRaise(semValue, depth[i])
            /\ depth' = [depth EXCEPT ![i] = 0]
            /\ outcome' = [outcome EXCEPT ![i] = Error("ClientResponseError", st)]
            /\ lastResolved' = i
            /\ pc' = [pc EXCEPT ![i] = "done"]
            /\ UNCHANGED n429
    /\ UNCHANGED <<capacity, nwaits, nposts, got, batchVars, inputVars, msgVars>>
    /\ UNCHANGED <<frame, sent, nunit, charged>>

\* a retry that goes on to the semaphore without the wait of chat.py:65
RetryWaitDirect(i) ==
    /\ pc[i] = "retrywait"
    /\ Admits(0)
    /\ reqUsed' = CommitRequests(reqUsed)
    /\ tokUsed' = CommitTokens(tokUsed, 0)
    /\ nwaits' = [nwaits EXCEPT ![i] = @ + 1]
    /\ waitsSinceResponse' = [waitsSinceResponse EXCEPT ![i] = @ + 1]
    /\ frame' = [frame EXCEPT ![i] = RecurseArgs(@)]
    /\ pc' = [pc EXCEPT ![i] = "acquire"]
    /\ UNCHANGED <<depth, n429, nposts, status, got, outcome, lastResolved>>
    /\ UNCHANGED <<sent, nunit, charged, nupdates>>
    /\ UNCHANGED <<gateVars, batchVars, inputVars, msgVars>>

\* a retry that sends the POST again from inside the slot it holds
RetryWaitRepost(i) ==
    /\ pc[i] = "retrywait"
    /\ Admits(0)
    /\ reqUsed' = CommitRequests(reqUsed)
    /\ tokUsed' = CommitTokens(tokUsed, 0)
    /\ nwaits' = [nwaits EXCEPT ![i] = @ + 1]
    /\ waitsSinceResponse' = [waitsSinceResponse EXCEPT ![i] = @ + 1]
    /\ frame' = [frame EXCEPT ![i] = RecurseArgs(@)]
    /\ nposts' = [nposts EXCEPT ![i] = @ + 1]
    /\ pc' = [pc EXCEPT ![i] = "post"]
    /\ UNCHANGED <<depth, n429, status, got, outcome, lastResolved>>
    /\ UNCHANGED <<sent, nunit, charged, nupdates>>
    /\ UNCHANGED <<gateVars, batchVars, inputVars, msgVars>>

\* chat.py:75-76: wait_for_availability() returns and the call recurses
\* into _call_openai_chat, which starts at chat.py:65
RetryWait(i) ==
    /\ pc[i] = "retrywait"
    /\ Admits(0)
    /\ reqUsed' = CommitRequests(reqUsed)
    /\ tokUsed' = CommitTokens(tokUsed, 0)
    /\ nwaits' = [nwaits EXCEPT ![i] = @ + 1]
    /\ waitsSinceResponse' = [waitsSinceResponse EXCEPT ![i] = @ + 1]
    /\ frame' = [frame EXCEPT ![i] = RecurseArgs(@)]
    /\ pc' = [pc EXCEPT ![i] = "wait"]
    /\ UNCHANGED <<depth, n429, nposts, status, got, outcome, lastResolved>>
    /\ UNCHANGED <<sent, nunit, charged, nupdates>>
    /\ UNCHANGED <<gateVars, batchVars, inputVars, msgVars>>

\* chat.py:84 and 100-123: res.json() gives body, every frame returns, and
\* call_openai_chat shapes its result
ReadBody(i, body) ==
    /\ pc[i] = "body"
    /\ got' = [got EXCEPT ![i] = body]
    /\ semValue' = ReleaseOnReturn(semValue, depth[i])
    /\ depth' = [depth EXCEPT ![i] = 0]
    /\ outcome' = [outcome EXCEPT ![i] =
           ShapeResponse(input_data[i], schemaMode, Returned(depth[i], body))]
    /\ lastResolved' = i
    /\ pc' = [pc EXCEPT ![i] = "done"]
    /\ UNCHANGED <<capacity, n429, nwaits, nposts, status>>
    /\ UNCHANGED <<frame, sent, nunit, charged, waitsSinceResponse, nupdates>>
    /\ UNCHANGED <<trackerVars, batchVars, inputVars, msgVars>>

\* the rate limiter's window rolls over
Replenish ==
    /\ reqUsed > 0 \/ tokUsed > 0
    /\ reqUsed' = 0
    /\ tokUsed' = 0
    /\ UNCHANGED <<execVars, gateVars, batchVars, inputVars, msgVars>>

\* chat.py:141-151: gather resumes async_call_open_ai_chat, which returns
GatherReturn ==
    /\ batch = "running"
    /\ GatherReady(ReturnExceptions)
    /\ IF \A i \in Executors : Resolved(i)
       THEN /\ results' = gather(outcome, lastResolved)
            /\ output' = IF schemaMode
                         THEN split_valid_and_invalid_records(
                                  gather(outcome, lastResolved))
                         ELSE [results |-> gather(outcome, lastResolved)]
            /\ batch' = "returned"
       ELSE /\ results' = <<>>
            /\ output' = Nothing
            /\ batch' = "raised"
    /\ UNCHANGED <<execVars, gateVars, trackerVars, inputVars, msgVars>>

Next ==
    \/ \E i \in Executors : WaitForAvailability(i)
    \/ \E i \in Executors : Acquire(i)
    \/ \E i \in Executors, st \in Statuses : Respond(i, st)
    \/ \E i \in Executors : RetryWait(i)
    \/ \E i \in Executors, body \in Bodies : ReadBody(i, body)
    \/ Replenish
    \/ GatherReturn

Spec == Init /\ [][Next]_vars

ExecutorStep(i) ==
    \/ WaitForAvailability(i)
    \/ Acquire(i)
    \/ \E st \in Statuses : Respond(i, st)
    \/ RetryWait(i)
    \/ \E body \in Bodies : ReadBody(i, body)

\* every await that can resume does resume, the window keeps rolling over
\* and the server answers
FairSpec ==
    /\ Spec
    /\ \A i \in Executors : WF_vars(ExecutorStep(i))
    /\ WF_vars(Replenish)
    /\ WF_vars(GatherReturn)

\* ------------------------------------- _construct_messages on its own
\* the strings prompt and text are drawn from
MsgStrings == {"", "a", "b", "aa", "ab", "ba", "bb"}

MsgInit ==
    /\ capacity = 1
    /\ schemaMode = FALSE
    /\ InitBatch
    /\ msgPrompt \in MsgStrings
    /\ msgText \in {None} \cup MsgStrings
    /\ msgOut = <<>>

\* chat.py:36-42: _construct_messages(prompt, text) is called
ConstructMessages ==
    /\ msgOut = <<>>
    /\ msgOut' = _construct_messages(msgPrompt, msgText)
    /\ UNCHANGED <<msgPrompt, msgText>>
    /\ UNCHANGED <<execVars, gateVars, trackerVars, batchVars, inputVars>>

MsgNext == ConstructMessages

MsgSpec == MsgInit /\ [][MsgNext]_vars

TypeOK ==
    /\ capacity \in 1..MaxN
    /\ semValue \in 0..capacity
    /\ pc \in [Executors -> {"wait", "acquire", "post", "retrywait", "body", "done"}]
    /\ \A i \in Executors : depth[i] \in 0..capacity /\ n429[i] \in 0..Max429
    /\ reqUsed \in 0..MaxRequestsPerWindow
    /\ tokUsed \in 0..MaxTokensPerWindow
    /\ batch \in {"running", "returned", "raised"}

\* ================================================================ claims
AllResolved == \A i \in Executors : Resolved(i)

\* the tasks whose POST is sent and whose response is not yet fully received
InFlight == {i \in Executors : pc[i] \in {"post", "body"}}

\* C1: in every reachable state the number of tasks inside a network call
\* is at most the capacity N of the gate.
C1_InFlightAtMostN == Cardinality(InFlight) <= capacity

\* the gate is full of network calls while another task waits for a slot
C1_Witness ==
    /\ Cardinality(InFlight) = capacity
    /\ \E i \in Executors : pc[i] = "acquire"

\* every unresolved task is suspended in the semaphore's acquire and no slot
\* is free: the slots are held by those same tasks, so none is ever released
GateDeadlock ==
    /\ ~AllResolved
    /\ semValue = 0
    /\ \A i \in Executors : ~Resolved(i) => pc[i] = "acquire"

\* C2: a batch runs to completion; no reachable state has all the remaining
\* tasks blocked forever.
C2_NoTaskBlockedForever == ~GateDeadlock

\* call_openai_chat's result for a body received at the first attempt
ImmediateResult(i, body) == ShapeResponse(input_data[i], schemaMode, body)

\* C3: a request answered 429 and then successfully finishes, and with the
\* result of a single immediate success.
C3_ThrottledOnceFinishes ==
    /\ [](\A i \in Executors :
            Resolved(i) /\ status[i] = 200
                => outcome[i] = ImmediateResult(i, got[i]))
    /\ \A i \in Executors :
            (n429[i] = 1 /\ pc[i] = "retrywait")
                ~> (Resolved(i) \/ n429[i] > 1)

\* C4: the held-slot count is never negative nor above N, a resolved task
\* holds no slot, and once every task has resolved no slot is held.
C4_SlotsReleased ==
    /\ Held \in 0..capacity
    /\ \A i \in Executors : Resolved(i) => depth[i] = 0
    /\ AllResolved => Held = 0

\* every task has resolved, one of them by an exception raised in a retry
C4_Witness ==
    /\ AllResolved
    /\ Held = 0
    /\ \E i \in Executors :
           n429[i] > 0 /\ outcome[i] = Error("ClientResponseError", 500)
    /\ \E i \in Executors : ~IsError(outcome[i])

\* C5: the i-th entry of what gather returns is the outcome of the i-th
\* row, whatever the order in which the tasks resolved.
C5_IndexAligned ==
    batch = "returned" =>
        /\ Len(results) = K
        /\ \A i \in Executors :
               /\ results[i] = outcome[i]
               /\ IsValidRecord(results[i]) => results[i].id = input_data[i].id
               /\ ~schemaMode => output.results[i] = outcome[i]

\* the first row resolved last, and with an outcome unlike the second row's
C5_Witness ==
    /\ batch = "returned"
    /\ lastResolved = 1
    /\ outcome[1] # outcome[2]

\* C6: when a request fails, the call still returns only after every task
\* has resolved with its own outcome, and what gather returns holds one
\* outcome per row.
C6_FailureIsolated ==
    (\E j \in Executors : IsError(outcome[j])) =>
        /\ batch \in {"running", "returned"}
        /\ batch = "returned" =>
               /\ AllResolved
               /\ Len(results) = K
               /\ \A i \in Executors : results[i] = outcome[i]

\* one request failed and a sibling that resolved after it succeeded
C6_Witness ==
    /\ batch = "returned"
    /\ \E j \in Executors :
           /\ IsError(outcome[j])
           /\ lastResolved # j
           /\ ~IsError(results[lastResolved])

\* statuses that are neither 2xx nor 429
IsOtherError(st) == st >= 400 /\ st # 429

\* C7: once a task has received a non-429 error status it is resolved with
\* that error and makes no further wait, acquisition or network attempt.
C7_ErrorNotRetried ==
    [][\A i \in Executors :
          IsOtherError(status[i]) =>
              /\ pc[i] = "done" /\ pc'[i] = "done"
              /\ outcome[i] = Error("ClientResponseError", status[i])
              /\ outcome'[i] = outcome[i]
              /\ nwaits'[i] = nwaits[i]
              /\ nposts'[i] = nposts[i]
              /\ depth'[i] = depth[i]]_vars

\* a task has received a 500 while a sibling is still running
C7_Witness ==
    \E i, j \in Executors :
        /\ status[i] = 500
        /\ Resolved(i)
        /\ ~Resolved(j)

\* C8: no resolved outcome and no entry of the batch result is a 429 error;
\* a task whose last response was a 429 is in its retry.
C8_ThrottleInvisible ==
    /\ \A i \in Executors :
           /\ IsError(outcome[i]) => outcome[i].status # 429
           /\ status[i] = 429 =>
                  pc[i] \in {"retrywait", "wait", "acquire", "post"}
    /\ batch = "returned" =>
           \A i \in Executors :
               IsError(results[i]) => results[i].status # 429

\* a throttled task has resolved and the batch has returned
C8_Witness ==
    /\ batch = "returned"
    /\ \E i \in Executors : n429[i] > 0

\* a 2xx body without usage, without choices, or with no choice
LacksFields(body) ==
    \/ "usage" \notin DOMAIN body
    \/ "choices" \notin DOMAIN body
    \/ Len(body.choices) = 0

\* C9: a task whose 2xx body lacks usage, lacks choices or has an empty
\* choices list resolves with BadResponseException, never with a result.
C9_MalformedDetected ==
    \A i \in Executors :
        got[i] # Nothing /\ LacksFields(got[i]) =>
            outcome[i] = Error("BadResponseException", 0)

\* tasks have resolved on each of the three malformed bodies
C9_Witness ==
    /\ \E i \in Executors : got[i] = [choices |-> <<Choice("Paris")>>]
    /\ \E i \in Executors :
           got[i] = [usage |-> Usage] \/ got[i] = [usage |-> Usage, choices |-> <<>>]

\* a well-formed body whose first choice is JSON with the schema's fields
MatchesSchema(body) ==
    /\ ~LacksFields(body)
    /\ body.choices[1].message.content = "{\"text\":\"Paris\"}"

\* the elements of a sequence
Range(seq) == {seq[n] : n \in 1..Len(seq)}

\* C10: in schema mode valid and invalid together hold k entries; valid
\* holds exactly the envelopes of the tasks whose body matched the schema,
\* and every task that failed has its error in invalid.
C10_Partition ==
    batch = "returned" /\ schemaMode =>
        /\ Len(output.valid) + Len(output.invalid) = K
        /\ \A v \in Range(output.valid) :
               /\ IsValidRecord(v)
               /\ \E i \in Executors :
                      v = outcome[i] /\ v.id = i /\ MatchesSchema(got[i])
        /\ \A i \in Executors :
               /\ IsError(outcome[i]) =>
                      \E e \in Range(output.invalid) : e.error = outcome[i]
               /\ ~IsError(outcome[i]) => outcome[i] \in Range(output.valid)

\* a schema-mode batch with an envelope and a schema parse failure
C10_Witness ==
    /\ batch = "returned"
    /\ schemaMode
    /\ Len(output.valid) > 0
    /\ \E e \in Range(output.invalid) :
           e.error.exc \in {"JSONDecodeError", "ValidationError"}

\* C11: in schema mode every failing request has an entry of invalid that
\* pairs its error with the row of input_data that produced it.
C11_InvalidCarriesInput ==
    batch = "returned" /\ schemaMode =>
        \A i \in Executors :
            IsError(outcome[i]) =>
                \E e \in Range(output.invalid) :
                    e.error = outcome[i] /\ e.input = input_data[i]

\* C12: async_call_open_ai_chat has returned (or raised) only when every
\* task has resolved; none is then waiting on the rate limiter, waiting for
\* the gate or in a network call.
C12_ReturnsAfterAllResolved ==
    batch # "running" =>
        \A i \in Executors : Resolved(i) /\ outcome[i] # Nothing

\* the call has returned a batch in which a task failed and a task succeeded
C12_Witness ==
    /\ batch = "returned"
    /\ \E i \in Executors : IsError(outcome[i])
    /\ \E i \in Executors : outcome[i] # Nothing /\ ~IsError(outcome[i])

\* C13 as stated: between the first attempt, answered 429, and the retry's
\* attempt the task performs exactly one availability wait.
C13_OneWaitBetweenAttempts ==
    \A i \in Executors :
        pc[i] = "post" /\ nposts[i] >= 2 => waitsSinceResponse[i] = 1

\* C13 amended: between an attempt answered 429 and the next attempt the
\* task performs exactly two availability waits, the one without units of
\* chat.py:75 and the one for required_tokens of chat.py:65; the first
\* attempt is preceded by one.
C13_TwoWaitsBetweenAttempts ==
    \A i \in Executors :
        pc[i] = "post" =>
            waitsSinceResponse[i] = (IF nposts[i] >= 2 THEN 2 ELSE 1)

\* a task is in its second network attempt
C13_Witness == \E i \in Executors : pc[i] = "post" /\ nposts[i] = 2

\* C14: without text the messages are one user message holding prompt; with
\* text, the empty string included, they are a system message holding prompt
\* and a user message holding text.
C14_MessagesAsSpecified ==
    msgOut # <<>> =>
        msgOut = IF msgText = None
                 THEN <<[role |-> "user", content |-> msgPrompt]>>
                 ELSE <<[role |-> "system", content |-> msgPrompt],
                        [role |-> "user", content |-> msgText]>>

\* C15: the rate limiter's window never holds more requests or tokens than
\* its cap, and every completed wait of a task, the waits of a 429 retry
\* included, commits one request within the caps.
C15_BudgetConserved ==
    /\ [](reqUsed <= MaxRequestsPerWindow /\ tokUsed <= MaxTokensPerWindow)
    /\ [][\A i \in Executors :
             nwaits'[i] # nwaits[i] =>
                 /\ reqUsed' = reqUsed + 1
                 /\ tokUsed' >= tokUsed
                 /\ reqUsed' <= MaxRequestsPerWindow
                 /\ tokUsed' <= MaxTokensPerWindow]_vars

\* the request window is full while a throttled task waits to be admitted
C15_Witness ==
    /\ reqUsed = MaxRequestsPerWindow
    /\ \E i \in Executors : pc[i] = "retrywait"

\* C16: unit waits and network attempts of a task alternate, the wait first:
\* a task about to acquire the gate has completed the wait of this attempt,
\* and a task in a network call has made one unit wait and one acquisition
\* per attempt.
C16_WaitThenGateThenPost ==
    \A i \in Executors :
        /\ nposts[i] <= nunit[i] /\ nunit[i] <= nposts[i] + 1
        /\ pc[i] = "acquire" => nunit[i] = nposts[i] + 1
        /\ pc[i] \in {"wait", "retrywait"} => nunit[i] = nposts[i]
        /\ pc[i] \in {"post", "body"} =>
               /\ nunit[i] = nposts[i]
               /\ depth[i] = nposts[i]
               /\ depth[i] >= 1

\* a task is in the network call of a retry while a sibling waits for a slot
C16_Witness ==
    \E i, j \in Executors :
        /\ pc[i] = "post" /\ n429[i] > 0
        /\ pc[j] = "acquire"

\* C17: update_from_headers has been called once for a task whose response
\* was 2xx, before the body is read, and never for a task whose responses
\* were 429 or another error.
C17_FeedbackOnSuccessOnly ==
    \A i \in Executors :
        /\ nupdates[i] = (IF status[i] = 200 THEN 1 ELSE 0)
        /\ pc[i] = "body" \/ got[i] # Nothing => nupdates[i] = 1

\* a task throttled and then answered 2xx, a sibling answered 500
C17_Witness ==
    \E i, j \in Executors :
        /\ n429[i] > 0 /\ status[i] = 200 /\ nupdates[i] = 1
        /\ status[j] = 500 /\ nupdates[j] = 0

\* C18: a task holds at most one slot of the gate, and none while it is
\* suspended in a rate limiter wait or in the gate's acquire.
C18_NoHoldAndWait ==
    \A i \in Executors :
        /\ depth[i] <= 1
        /\ pc[i] \in {"wait", "retrywait", "acquire"} => depth[i] = 0

\* C19: every network attempt of a task is charged by one wait for the
\* request's estimate, the same for every attempt: the unit waits are never
\* behind the attempts nor more than one ahead, they equal the attempts once
\* the POST is sent, a resolved task throttled k times has made k + 1 of
\* them, and every POST carries the payload built from the row.
C19_ChargedPerAttempt ==
    \A i \in Executors :
        /\ nposts[i] <= nunit[i] /\ nunit[i] <= nposts[i] + 1
        /\ pc[i] \in {"post", "body", "retrywait", "done"} =>
               nunit[i] = nposts[i]
        /\ Resolved(i) => nunit[i] = n429[i] + 1
        /\ charged[i] = nunit[i] * required_tokens(i)
        /\ sent[i] # Nothing => sent[i] = CallData(input_data[i], schemaMode)

\* a resolved task that was throttled
C19_Witness ==
    \E i \in Executors :
        /\ Resolved(i)
        /\ n429[i] >= 1
        /\ charged[i] = (n429[i] + 1) * required_tokens(i)

====
